---------------------------- MODULE Spec2Model ----------------------------
(***************************************************************************)
(* Model of martin's HTTP serving core (src/martin/src/srv/server.rs):     *)
(* the tile route (get_tile -> get_tile_response -> get_tile_content ->    *)
(* recompress) and the TileJSON merger (merge_tilejson).                   *)
(*                                                                         *)
(* Bytes are modelled as strings.  A payload is a sequence of bytes.       *)
(* Compressed streams are framed: a gzip member of d is "gz[" d "]", a     *)
(* brotli stream "br[" d "]", a zstd frame "zs[" d "]".                    *)
(***************************************************************************)
EXTENDS Integers, Sequences, FiniteSets, TLC

VARIABLES
    pc,          \* position of the tile handler: "idle" | "fetching" | "done"
    sources,     \* per selected source, the outcome of Source::get_tile
    info,        \* the group TileInfo returned by get_sources
    pending,     \* indices of the fetches try_join_all is still awaiting
    reordered,   \* some fetch completed while an earlier source was pending
    encodings,   \* the Accept-Encoding header as recompress reads it
    assembled,   \* the Tile handed to recompress (handed = FALSE: none was)
    content,     \* the ActixResult<Tile> of get_tile_content
    codec,       \* the codec utilities recompress called, in call order
    response,    \* the HttpResponse of the tile route
    tj_pc,       \* position of the TileJSON route: "idle" | "done"
    tj_sources,  \* the TileJSON descriptors of the selected sources
    tj_result    \* the descriptor merge_tilejson returned

tile_vars == <<pc, sources, info, pending, reordered, encodings, assembled,
               content, codec, response>>
tj_vars == <<tj_pc, tj_sources, tj_result>>
vars == <<pc, sources, info, pending, reordered, encodings, assembled,
          content, codec, response, tj_pc, tj_sources, tj_result>>

---------------------------------------------------------------------------
(* Bounds                                                                  *)

\* the longest source list of one tile request
MaxSources == 2
\* the longest Accept-Encoding preference list
MaxPrefs == 2
\* the longest source list of one TileJSON request
MaxMergeSources == 3

---------------------------------------------------------------------------
(* Data model: TileInfo, Tile                                              *)

Formats == {"mvt", "png"}
Encodings == {"uncompressed", "gzip", "brotli", "zstd"}
TileInfos == [format : Formats, encoding : Encodings]

\* Encoding::is_encoded
is_encoded(encoding) == encoding # "uncompressed"

\* Encoding::content_encoding: the Content-Encoding token, "none" for identity
content_encoding(encoding) ==
    CASE encoding = "gzip" -> "gzip"
      [] encoding = "brotli" -> "br"
      [] encoding = "zstd" -> "zstd"
      [] OTHER -> "none"

\* Format::content_type
content_type(format) ==
    CASE format = "mvt" -> "application/vnd.mapbox-vector-tile"
      [] format = "png" -> "image/png"
      [] OTHER -> "application/octet-stream"

\* Tile::new
NewTile(data, tinfo) == [data |-> data, info |-> tinfo]

\* TileInfo::encoding: the same format under another encoding
WithEncoding(tinfo, encoding) == [format |-> tinfo.format, encoding |-> encoding]

---------------------------------------------------------------------------
(* Codec utilities (crate::utils)                                          *)

CodecFail == [ok |-> FALSE, data |-> <<>>]

encode_gzip(data) == <<"gz[">> \o data \o <<"]">>

encode_brotli(data) == <<"br[">> \o data \o <<"]">>

\* index of the first "]" of s, 0 if there is none
FrameEnd(s) ==
    IF \E k \in 1..Len(s) : s[k] = "]"
    THEN CHOOSE k \in 1..Len(s) : s[k] = "]" /\ \A j \in 1..(k - 1) : s[j] # "]"
    ELSE 0

RECURSIVE GzipMembers(_)
\* the contents of a run of gzip members, one after the other
GzipMembers(s) ==
    IF s = <<>> THEN [ok |-> TRUE, data |-> <<>>]
    ELSE LET k == FrameEnd(s)
         IN  IF Head(s) # "gz[" \/ k = 0 THEN CodecFail
             ELSE LET rest == GzipMembers(SubSeq(s, k + 1, Len(s)))
                  IN  IF rest.ok
                      THEN [ok |-> TRUE, data |-> SubSeq(s, 2, k - 1) \o rest.data]
                      ELSE CodecFail

\* an empty input has no gzip header: an io error
decode_gzip(data) == IF data = <<>> THEN CodecFail ELSE GzipMembers(data)

\* exactly one brotli stream, nothing after it
decode_brotli(data) ==
    IF data # <<>> /\ Head(data) = "br[" /\ FrameEnd(data) = Len(data)
    THEN [ok |-> TRUE, data |-> SubSeq(data, 2, Len(data) - 1)]
    ELSE CodecFail

---------------------------------------------------------------------------
(* Source payloads                                                         *)

\* the uncompressed contents a source may hold for the requested coordinate
Contents == {<<"a">>, <<"b">>}

\* a content as a source of the given native encoding stores it
Stored(encoding, c) ==
    CASE encoding = "gzip" -> encode_gzip(c)
      [] encoding = "brotli" -> encode_brotli(c)
      [] encoding = "zstd" -> <<"zs[">> \o c \o <<"]">>
      [] OTHER -> c

\* Source::get_tile: an error, or bytes (empty: nothing at this coordinate)
FetchOutcomes(encoding) ==
    {[ok |-> FALSE, data |-> <<>>]}
    \cup {[ok |-> TRUE, data |-> <<>>]}
    \cup {[ok |-> TRUE, data |-> Stored(encoding, c)] : c \in Contents}

\* every source list of length 1..MaxSources
SourceLists(encoding) ==
    UNION {[1..n -> FetchOutcomes(encoding)] : n \in 1..MaxSources}

---------------------------------------------------------------------------
(* Accept-Encoding (actix_web::http::header::AcceptEncoding)               *)

\* "*" is Preference::Any; the others are Preference::Specific of a known
\* ContentEncoding.  deflate and unknown tokens take the same branches of
\* this file as zstd (to_encoding gives None, SUPPORTED_ENCODINGS lacks them).
PrefItems == {"*", "br", "gzip", "identity", "zstd"}
\* q-values in thousandths: excluded (q=0) or fully accepted (q=1)
Qualities == {0, 1000}
QualityItems == [item : PrefItems, q : Qualities]

PrefLists == UNION {[1..n -> QualityItems] : n \in 0..MaxPrefs}

\* SUPPORTED_ENCODINGS
SUPPORTED_ENCODINGS == {"br", "gzip", "identity"}

\* encoding_rank: the server's ranking, 0 for every q=0 item
encoding_rank(qi) ==
    IF qi.q = 0 THEN 0
    ELSE CASE qi.item = "br" -> 5
           [] qi.item = "zstd" -> 4
           [] qi.item = "gzip" -> 3
           [] OTHER -> 0

\* a sorts strictly before b: higher quality, then higher rank
Before(a, b) ==
    \/ a.q > b.q
    \/ a.q = b.q /\ encoding_rank(a) > encoding_rank(b)

RECURSIVE InsertRanked(_, _)
\* stable insert: x goes after every item that does not sort after it
InsertRanked(x, s) ==
    IF s = <<>> THEN <<x>>
    ELSE IF Before(x, Head(s)) THEN <<x>> \o s
    ELSE <<Head(s)>> \o InsertRanked(x, Tail(s))

RECURSIVE ranked_items(_)
\* AcceptEncoding::ranked_items: stable sort, best first
ranked_items(prefs) ==
    IF prefs = <<>> THEN <<>>
    ELSE LET n == Len(prefs)
         IN  InsertRanked(prefs[n], ranked_items(SubSeq(prefs, 1, n - 1)))

\* is_identity_acceptable: the first identity or wildcard item decides
is_identity_acceptable(items) ==
    LET hits == {k \in 1..Len(items) : items[k].item \in {"identity", "*"}}
    IN  IF hits = {} THEN TRUE
        ELSE LET k == CHOOSE h \in hits : \A g \in hits : h <= g
             IN  items[k].q > 0

\* AcceptEncoding::negotiate over `supported`: the winner, or "none"
negotiate(prefs, supported) ==
    IF supported = {} THEN "none"
    ELSE IF prefs = <<>> THEN "identity"
    ELSE LET items == ranked_items(prefs)
             identity_acceptable == is_identity_acceptable(items)
             hits == {k \in 1..Len(items) :
                         items[k].q > 0 /\ items[k].item \in supported}
         IN  IF identity_acceptable /\ "identity" \in supported /\ Len(items) = 1
             THEN "identity"
             ELSE IF hits # {}
             THEN items[CHOOSE h \in hits : \A g \in hits : h <= g].item
             ELSE IF identity_acceptable THEN "identity"
             ELSE "none"

\* Option<AcceptEncoding>: the header absent, or a preference list.  Each
\* header carries what its negotiate(SUPPORTED_ENCODINGS) returns.
NoHeader == [present |-> FALSE, prefs |-> <<>>, negotiated |-> "none"]
Header(prefs) ==
    [present |-> TRUE, prefs |-> prefs,
     negotiated |-> negotiate(prefs, SUPPORTED_ENCODINGS)]
AcceptHeaders == {NoHeader} \cup {Header(p) : p \in PrefLists}

---------------------------------------------------------------------------
(* Content-encoding negotiator: recompress, encode, decode, to_encoding    *)

\* an ActixResult<Tile> together with the codec utilities called to make it
OkTile(tile, calls) == [ok |-> TRUE, status |-> 200, tile |-> tile, calls |-> calls]
ErrTile(status, tile, calls) ==
    [ok |-> FALSE, status |-> status, tile |-> tile, calls |-> calls]

\* to_encoding with zstd mapped as well
to_encoding_with_zstd(val) ==
    CASE val = "identity" -> "uncompressed"
      [] val = "gzip" -> "gzip"
      [] val = "br" -> "brotli"
      [] val = "zstd" -> "zstd"
      [] OTHER -> "none"

\* to_encoding: ContentEncoding -> Option<Encoding> ("none" is None)
to_encoding(val) ==
    CASE val = "identity" -> "uncompressed"
      [] val = "gzip" -> "gzip"
      [] val = "br" -> "brotli"
      [] OTHER -> "none"

\* decode that keeps the TileInfo of its input
decode_same_info(tile) ==
    IF is_encoded(tile.info.encoding)
    THEN CASE tile.info.encoding = "gzip" ->
                LET d == decode_gzip(tile.data)
                IN  IF d.ok
                    THEN OkTile(NewTile(d.data, tile.info), <<"decode_gzip">>)
                    ELSE ErrTile(500, tile, <<"decode_gzip">>)
           [] tile.info.encoding = "brotli" ->
                LET d == decode_brotli(tile.data)
                IN  IF d.ok
                    THEN OkTile(NewTile(d.data, tile.info), <<"decode_brotli">>)
                    ELSE ErrTile(500, tile, <<"decode_brotli">>)
           [] OTHER -> ErrTile(400, tile, <<>>)
    ELSE OkTile(tile, <<>>)

\* decode: an io error of the codec surfaces as 500, an encoding without a
\* decoder as bad request
decode(tile) ==
    IF is_encoded(tile.info.encoding)
    THEN CASE tile.info.encoding = "gzip" ->
                LET d == decode_gzip(tile.data)
                IN  IF d.ok
                    THEN OkTile(NewTile(d.data, WithEncoding(tile.info, "uncompressed")),
                                <<"decode_gzip">>)
                    ELSE ErrTile(500, tile, <<"decode_gzip">>)
           [] tile.info.encoding = "brotli" ->
                LET d == decode_brotli(tile.data)
                IN  IF d.ok
                    THEN OkTile(NewTile(d.data, WithEncoding(tile.info, "uncompressed")),
                                <<"decode_brotli">>)
                    ELSE ErrTile(500, tile, <<"decode_brotli">>)
           [] OTHER -> ErrTile(400, tile, <<>>)
    ELSE OkTile(tile, <<>>)

\* encode
encode(tile, enc) ==
    CASE enc = "br" ->
            OkTile(NewTile(encode_brotli(tile.data), WithEncoding(tile.info, "brotli")),
                   <<"encode_brotli">>)
      [] enc = "gzip" ->
            OkTile(NewTile(encode_gzip(tile.data), WithEncoding(tile.info, "gzip")),
                   <<"encode_gzip">>)
      [] OTHER -> OkTile(tile, <<>>)

\* the closure of recompress: some preference item names the tile's encoding
ExplicitlyAccepted(prefs, encoding) ==
    \E k \in 1..Len(prefs) :
        /\ prefs[k].item # "*"
        /\ to_encoding(prefs[k].item) = encoding

\* recompress
recompress(tile, accept_enc) ==
    IF accept_enc.present
    THEN LET first ==
                 IF is_encoded(tile.info.encoding)
                    /\ ~ExplicitlyAccepted(accept_enc.prefs, tile.info.encoding)
                 THEN decode(tile)
                 ELSE OkTile(tile, <<>>)
         IN  IF ~first.ok THEN first
             ELSE IF first.tile.info.encoding = "uncompressed"
                     /\ accept_enc.negotiated # "none"
             THEN LET second == encode(first.tile, accept_enc.negotiated)
                  IN  [second EXCEPT !.calls = first.calls \o second.calls]
             ELSE first
    ELSE decode(tile)

---------------------------------------------------------------------------
(* Tile fan-out and assembly: get_tile_content after the join              *)

\* an mvt group is joined whatever its encoding
can_join_any_mvt(tinfo) == tinfo.format = "mvt"

\* can_join
can_join(tinfo) ==
    /\ tinfo.format = "mvt"
    /\ tinfo.encoding \in {"uncompressed", "gzip"}

\* layer_count: the number of non-empty payloads
layer_count(tiles) == Cardinality({i \in DOMAIN tiles : tiles[i] # <<>>})

RECURSIVE concat(_)
\* [Vec<u8>]::concat: the payloads one after the other
concat(tiles) ==
    IF tiles = <<>> THEN <<>> ELSE Head(tiles) \o concat(Tail(tiles))

\* a join that yields the payloads last source first
JoinedTilesReversed(srcs) ==
    [i \in DOMAIN srcs |-> srcs[Len(srcs) + 1 - i].data]

\* the Vec try_join_all yields: the payloads in source order
JoinedTiles(srcs) == [i \in DOMAIN srcs |-> srcs[i].data]

NoTile == NewTile(<<>>, [format |-> "mvt", encoding |-> "uncompressed"])
NotHanded == [handed |-> FALSE, tile |-> NoTile]

\* get_tile_content from the join up to its call of recompress: what it does
\* next ("bad_request": refuse to merge, "empty": return the empty tile,
\* "recompress": hand the tile to recompress) and the tile it does it with
Assemble(tiles, tinfo) ==
    LET layers == layer_count(tiles)
    IN  IF ~can_join(tinfo) /\ layers > 1
        THEN [next |-> "bad_request", tile |-> NoTile]
        ELSE IF layers = 0
        THEN [next |-> "empty", tile |-> NewTile(<<>>, tinfo)]
        ELSE [next |-> "recompress",
              tile |-> NewTile(IF layers = 1 THEN tiles[1] ELSE concat(tiles), tinfo)]

\* the empty tile is handed to recompress like any other
get_tile_content_recompress_empty(asm, accept_enc) ==
    CASE asm.next = "bad_request" -> ErrTile(400, NoTile, <<>>)
      [] OTHER -> recompress(asm.tile, accept_enc)

\* get_tile_content from there on
get_tile_content(asm, accept_enc) ==
    CASE asm.next = "bad_request" -> ErrTile(400, NoTile, <<>>)
      [] asm.next = "empty" -> OkTile(asm.tile, <<>>)
      [] OTHER -> recompress(asm.tile, accept_enc)

---------------------------------------------------------------------------
(* HTTP responses of the tile route                                        *)

NoResponse ==
    [status |-> 0, content_type |-> "none", content_encoding |-> "none", body |-> <<>>]

\* an actix_web::Error rendered as a response
ErrorResponse(status) ==
    [status |-> status, content_type |-> "text/plain", content_encoding |-> "none",
     body |-> <<"error">>]

\* get_tile_response from the tile on
TileResponse(tile) ==
    IF tile.data = <<>>
    THEN [status |-> 204, content_type |-> "none", content_encoding |-> "none",
          body |-> <<>>]
    ELSE [status |-> 200, content_type |-> content_type(tile.info.format),
          content_encoding |-> content_encoding(tile.info.encoding),
          body |-> tile.data]

get_tile_response(result) ==
    IF result.ok THEN TileResponse(result.tile) ELSE ErrorResponse(result.status)

---------------------------------------------------------------------------
(* The tile route as a state machine                                       *)

NoContent == ErrTile(0, NoTile, <<>>)

TileIdle ==
    /\ pc = "idle"
    /\ sources = <<>>
    /\ info = NoTile.info
    /\ pending = {}
    /\ reordered = FALSE
    /\ encodings = NoHeader
    /\ assembled = NotHanded
    /\ content = NoContent
    /\ codec = <<>>
    /\ response = NoResponse

\* the handler ends with an error before any fetch is dispatched
FailEarly(status) ==
    /\ pc' = "done"
    /\ content' = ErrTile(status, NoTile, <<>>)
    /\ response' = ErrorResponse(status)
    /\ UNCHANGED <<sources, info, pending, reordered, encodings, assembled, codec>>

\* get_sources fails: an unknown id, or the zoom outside a source's range
UnknownSource ==
    /\ pc = "idle"
    /\ FailEarly(404)
    /\ UNCHANGED tj_vars

\* get_tile_content called with no source at all
NoValidSources ==
    /\ pc = "idle"
    /\ FailEarly(404)
    /\ UNCHANGED tj_vars

\* the forwarded query string is rejected by the query parser
MalformedQuery ==
    /\ pc = "idle"
    /\ FailEarly(400)
    /\ UNCHANGED tj_vars

\* the sources are resolved and every fetch is dispatched
Dispatch ==
    /\ pc = "idle"
    /\ \E tinfo \in TileInfos :
         \E srcs \in SourceLists(tinfo.encoding) :
            /\ info' = tinfo
            /\ sources' = srcs
            /\ pending' = DOMAIN srcs
    /\ pc' = "fetching"
    /\ UNCHANGED <<reordered, encodings, assembled, content, codec, response>>
    /\ UNCHANGED tj_vars

\* a fetch completes with bytes while others are still pending
FetchReady(i) ==
    /\ pc = "fetching"
    /\ i \in pending
    /\ sources[i].ok
    /\ pending # {i}
    /\ pending' = pending \ {i}
    /\ reordered' = (reordered \/ \E j \in pending : j < i)
    /\ UNCHANGED <<pc, sources, info, encodings, assembled, content, codec, response>>
    /\ UNCHANGED tj_vars

\* a failed fetch counts as an empty payload and the tile is built from the rest
FetchFailsPartial(i) ==
    /\ pc = "fetching"
    /\ i \in pending
    /\ ~sources[i].ok
    /\ LET asm == Assemble(JoinedTiles(sources), info)
           result == get_tile_content(asm, NoHeader)
       IN  /\ assembled' = [handed |-> asm.next = "recompress", tile |-> asm.tile]
           /\ content' = [ok |-> result.ok, status |-> result.status,
                          tile |-> result.tile, calls |-> <<>>]
           /\ codec' = result.calls
           /\ response' = get_tile_response(result)
    /\ pending' = {}
    /\ pc' = "done"
    /\ UNCHANGED <<sources, info, reordered, encodings>>
    /\ UNCHANGED tj_vars

\* a fetch fails: try_join_all yields the error at once and drops the rest
FetchFails(i) ==
    /\ pc = "fetching"
    /\ i \in pending
    /\ ~sources[i].ok
    /\ pending' = {}
    /\ pc' = "done"
    /\ content' = ErrTile(500, NoTile, <<>>)
    /\ response' = ErrorResponse(500)
    /\ UNCHANGED <<sources, info, reordered, encodings, assembled, codec>>
    /\ UNCHANGED tj_vars

\* the last fetch completes with bytes: the join yields the payloads and the
\* handler runs to its response without suspending again
JoinAndRespond(i) ==
    /\ pc = "fetching"
    /\ pending = {i}
    /\ sources[i].ok
    /\ LET asm == Assemble(JoinedTiles(sources), info)
       IN  \E accept_enc \in AcceptHeaders :
             LET result == get_tile_content(asm, accept_enc)
             IN  /\ encodings' = accept_enc
                 /\ assembled' = [handed |-> asm.next = "recompress", tile |-> asm.tile]
                 /\ content' = [ok |-> result.ok, status |-> result.status,
                                tile |-> result.tile, calls |-> <<>>]
                 /\ codec' = result.calls
                 /\ response' = get_tile_response(result)
    /\ pending' = {}
    /\ pc' = "done"
    /\ UNCHANGED <<sources, info, reordered>>
    /\ UNCHANGED tj_vars

---------------------------------------------------------------------------
(* TileJSON merger: merge_tilejson                                         *)

\* Option<T>
None == [some |-> FALSE, v |-> 0]
Some(v) == [some |-> TRUE, v |-> v]

\* the names and zoom levels of test_merge_tilejson
Names == {"layer1", "layer2"}
MinZooms == {5, 7}
MaxZooms == {10, 12}

Optional(S) == {None} \cup {Some(v) : v \in S}

\* the fields of a source's TileJSON that the merged name and zoom range
\* read; the loop folds every field on its own, the others are left out
TileJsons == [name : Optional(Names), minzoom : Optional(MinZooms),
              maxzoom : Optional(MaxZooms)]

MergeLists == UNION {[1..n -> TileJsons] : n \in 0..MaxMergeSources}

\* the tilejson! value the loop starts from, with the loop's `names`
MergeStart == [maxzoom |-> None, minzoom |-> None, names |-> <<>>]

\* Vec::contains
contains(seq, v) == \E k \in 1..Len(seq) : seq[k] = v

\* the loop body's maxzoom branch
MergeMaxzoom(acc, tj) ==
    IF tj.maxzoom.some
    THEN IF acc.some
         THEN IF acc.v < tj.maxzoom.v THEN tj.maxzoom ELSE acc
         ELSE tj.maxzoom
    ELSE acc

\* the minzoom branch with the comparison of the maxzoom branch
MergeMinzoomAsMax(acc, tj) ==
    IF tj.minzoom.some
    THEN IF acc.some
         THEN IF acc.v < tj.minzoom.v THEN tj.minzoom ELSE acc
         ELSE tj.minzoom
    ELSE acc

\* the loop body's minzoom branch
MergeMinzoom(acc, tj) ==
    IF tj.minzoom.some
    THEN IF acc.some
         THEN IF acc.v > tj.minzoom.v THEN tj.minzoom ELSE acc
         ELSE tj.minzoom
    ELSE acc

\* the name branch without the `contains` test
MergeNamesNoDedup(names, tj) ==
    IF tj.name.some THEN Append(names, tj.name.v) ELSE names

\* the loop body's name branch
MergeNames(names, tj) ==
    IF tj.name.some
    THEN IF ~contains(names, tj.name.v) THEN Append(names, tj.name.v) ELSE names
    ELSE names

RECURSIVE MergeLoop(_, _)
\* the `for src in sources` loop, source by source
MergeLoop(acc, tjs) ==
    IF tjs = <<>> THEN acc
    ELSE MergeLoop([maxzoom |-> MergeMaxzoom(acc.maxzoom, Head(tjs)),
                    minzoom |-> MergeMinzoom(acc.minzoom, Head(tjs)),
                    names |-> MergeNames(acc.names, Head(tjs))],
                   Tail(tjs))

RECURSIVE join(_, _)
\* Itertools::join
join(strs, sep) ==
    IF strs = <<>> THEN ""
    ELSE IF Len(strs) = 1 THEN strs[1]
    ELSE strs[1] \o sep \o join(Tail(strs), sep)

\* merge_tilejson
merge_tilejson(tjs) ==
    IF Len(tjs) = 1
    THEN tjs[1]
    ELSE LET acc == MergeLoop(MergeStart, tjs)
         IN  [name |-> IF acc.names # <<>> THEN Some(join(acc.names, ",")) ELSE None,
              minzoom |-> acc.minzoom,
              maxzoom |-> acc.maxzoom]

NoTileJson == [name |-> None, minzoom |-> None, maxzoom |-> None]

TileJsonIdle ==
    /\ tj_pc = "idle"
    /\ tj_sources = <<>>
    /\ tj_result = NoTileJson

\* git_source_info: the sources are resolved and their descriptors merged
GitSourceInfo ==
    /\ tj_pc = "idle"
    /\ \E tjs \in MergeLists :
         /\ tj_sources' = tjs
         /\ tj_result' = merge_tilejson(tjs)
    /\ tj_pc' = "done"
    /\ UNCHANGED tile_vars

---------------------------------------------------------------------------
(* Specifications                                                          *)

Init == TileIdle /\ TileJsonIdle

Next ==
    \/ UnknownSource
    \/ NoValidSources
    \/ MalformedQuery
    \/ Dispatch
    \/ \E i \in 1..MaxSources : FetchReady(i)
    \/ \E i \in 1..MaxSources : FetchFails(i)
    \/ \E i \in 1..MaxSources : JoinAndRespond(i)

\* one tile request
Spec == Init /\ [][Next]_vars

\* one TileJSON request
SpecTileJson == Init /\ [][GitSourceInfo]_vars

---------------------------------------------------------------------------
(* Properties of the tile route                                            *)

\* the request ran to its response with every fetch returning bytes
AllFetched ==
    /\ pc = "done"
    /\ sources # <<>>
    /\ \A i \in DOMAIN sources : sources[i].ok

\* the sources that returned a non-empty payload
NonEmpty == {i \in DOMAIN sources : sources[i].ok /\ sources[i].data # <<>>}

RECURSIVE PayloadsInOrder(_)
\* the payloads of a source list one after the other, first source first
PayloadsInOrder(srcs) ==
    IF srcs = <<>> THEN <<>>
    ELSE PayloadsInOrder(SubSeq(srcs, 1, Len(srcs) - 1)) \o srcs[Len(srcs)].data

\* the group TileInfo is one of the two concatenation-safe combinations
Joinable ==
    \/ info = [format |-> "mvt", encoding |-> "uncompressed"]
    \/ info = [format |-> "mvt", encoding |-> "gzip"]

\* Accept-Encoding: identity
IdentityOnly == [item |-> "identity", q |-> 1000]

\* C1: when all fetches succeed and exactly one source, at whatever position,
\* returns a non-empty payload, the tile handed to the negotiator carries
\* that payload.
C1_SingleNonEmptyAdopted ==
    (AllFetched /\ Cardinality(NonEmpty) = 1)
        => /\ assembled.handed
           /\ \A i \in NonEmpty : assembled.tile.data = sources[i].data

\* C2: whatever the order in which the fetches complete, when all succeed,
\* two or more payloads are non-empty and the group is mvt with encoding
\* uncompressed or gzip, the assembled payload is the payloads in source
\* order; for an uncompressed group and an identity-only client that is the
\* response body.
C2_ConcatInSourceOrder ==
    (AllFetched /\ Cardinality(NonEmpty) >= 2 /\ Joinable)
        => /\ assembled.handed
           /\ assembled.tile.data = PayloadsInOrder(sources)
           /\ (info.encoding = "uncompressed" /\ encodings.present
                   /\ encodings.prefs = <<IdentityOnly>>)
                => /\ response.status = 200
                   /\ response.content_encoding = "none"
                   /\ response.body = PayloadsInOrder(sources)

\* two sources a, b; b's fetch completed first; identity-only client
C2_Witness ==
    /\ AllFetched
    /\ reordered
    /\ info = [format |-> "mvt", encoding |-> "uncompressed"]
    /\ Len(sources) = 2
    /\ sources[1].data = <<"a">>
    /\ sources[2].data = <<"b">>
    /\ encodings.present
    /\ encodings.prefs = <<IdentityOnly>>
    /\ assembled.tile.data = <<"a", "b">>
    /\ response.body = <<"a", "b">>

\* C3: once a dispatched fetch has failed the request can only end in an
\* internal error: no tile is assembled and no response carries a payload.
C3_FailureAbortsRequest ==
    (pc # "idle" /\ \E i \in DOMAIN sources : ~sources[i].ok)
        => /\ ~content.ok
           /\ ~assembled.handed
           /\ pc = "done" => /\ content.status = 500
                             /\ response = ErrorResponse(500)
           /\ pc = "fetching" => response = NoResponse

\* a source returned a payload, another failed, and the request ended in 500
C3_Witness ==
    /\ pc = "done"
    /\ Len(sources) = 2
    /\ sources[1].ok /\ sources[1].data = <<"a">>
    /\ ~sources[2].ok
    /\ response.status = 500

\* C4: when all fetches succeed and two or more payloads are non-empty,
\* get_tile_content succeeds only for mvt with encoding uncompressed or gzip;
\* for every other group TileInfo it is bad request under every header.
C4_UnmergeableIsBadRequest ==
    (AllFetched /\ Cardinality(NonEmpty) >= 2)
        => /\ content.ok => Joinable
           /\ ~Joinable => /\ ~content.ok
                           /\ content.status = 400
                           /\ response = ErrorResponse(400)
                           /\ ~assembled.handed

\* png + png with no Accept-Encoding header ends in 400
C4_Witness ==
    /\ AllFetched
    /\ info = [format |-> "png", encoding |-> "uncompressed"]
    /\ Cardinality(NonEmpty) = 2
    /\ ~encodings.present
    /\ response.status = 400

\* C5: when every source returns an empty payload the response is 204 with
\* no body, Content-Type or Content-Encoding, whatever the group TileInfo and
\* the header; and a tile response is 204 exactly when the negotiated
\* payload is empty, 200 otherwise.
C5_EmptyIsNoContent ==
    AllFetched
        => /\ NonEmpty = {}
                => /\ content.ok
                   /\ response = [status |-> 204, content_type |-> "none",
                                  content_encoding |-> "none", body |-> <<>>]
           /\ content.ok
                => /\ response.status \in {200, 204}
                   /\ response.status = 204 <=> content.tile.data = <<>>
                   /\ response.body = content.tile.data

\* two empty sources of a zstd group, a header that asks for gzip: 204
C5_Witness ==
    /\ AllFetched
    /\ Len(sources) = 2
    /\ NonEmpty = {}
    /\ info.encoding = "zstd"
    /\ encodings.present
    /\ encodings.prefs = <<[item |-> "gzip", q |-> 1000]>>
    /\ response.status = 204

---------------------------------------------------------------------------
(* Properties of the negotiator                                            *)

\* recompress was called and the handler ran to its response
Recompressed == pc = "done" /\ assembled.handed

\* a byte of an uncompressed payload: no frame marker
IsContentByte(b) == b \notin {"gz[", "br[", "zs[", "]"}

\* the contents of a compressed stream, its frame markers taken away
Plain(data) == SelectSeq(data, IsContentByte)

\* recompress returned the tile it was given and called no codec utility
PassedThrough ==
    /\ content.ok
    /\ content.tile = assembled.tile
    /\ codec = <<>>

\* C6: with no Accept-Encoding header recompress applies no encoding: a gzip
\* or brotli stream is decoded and returned as uncompressed, an uncompressed
\* tile is returned unchanged, a zstd tile yields bad request, and every
\* successful result is identity.
C6_NoHeaderMeansIdentity ==
    (Recompressed /\ ~encodings.present)
        => LET tile == assembled.tile
           IN  /\ content.ok
                    => /\ content.tile.info.encoding = "uncompressed"
                       /\ response.content_encoding = "none"
                       /\ \A k \in 1..Len(codec) :
                            codec[k] \notin {"encode_gzip", "encode_brotli"}
               /\ tile.info.encoding = "uncompressed" => PassedThrough
               /\ (tile.info.encoding \in {"gzip", "brotli"} /\ tile.data # <<>>)
                    => /\ content.ok
                       /\ content.tile.info.format = tile.info.format
                       /\ content.tile.info.encoding = "uncompressed"
                       /\ content.tile.data = Plain(tile.data)
               /\ tile.info.encoding = "zstd"
                    => /\ ~content.ok
                       /\ content.status = 400

\* a gzip tile and no header: the decoded bytes go out as identity
C6_Witness ==
    /\ Recompressed
    /\ ~encodings.present
    /\ assembled.tile.data = <<"gz[", "a", "]">>
    /\ assembled.tile.info.encoding = "gzip"
    /\ content.tile.data = <<"a">>
    /\ content.tile.info.encoding = "uncompressed"
    /\ response.status = 200
    /\ response.content_encoding = "none"

\* the Content-Encoding token of a compressed encoding
Token(encoding) ==
    CASE encoding = "gzip" -> "gzip"
      [] encoding = "brotli" -> "br"
      [] encoding = "zstd" -> "zstd"
      [] OTHER -> "identity"

\* some preference item names the encoding, whatever its quality
Named(encoding) ==
    \E k \in 1..Len(encodings.prefs) : encodings.prefs[k].item = Token(encoding)

\* C7: with the header present, a tile whose encoding is already
\* the top accepted one (an encoded tile: some item names its encoding; an
\* uncompressed tile: identity wins the negotiation) is returned with the
\* same bytes and encoding, neither decoded nor encoded.
C7_PassThroughAnyEncoding ==
    (Recompressed /\ encodings.present
        /\ IF assembled.tile.info.encoding = "uncompressed"
           THEN encodings.negotiated = "identity"
           ELSE Named(assembled.tile.info.encoding))
        => PassedThrough

\* What the code does pass through: the same statement for gzip, brotli and
\* uncompressed tiles; a zstd tile is decoded (and refused) whatever the
\* header lists.
C7_PassThrough ==
    (Recompressed /\ encodings.present
        /\ assembled.tile.info.encoding # "zstd"
        /\ IF assembled.tile.info.encoding = "uncompressed"
           THEN encodings.negotiated = "identity"
           ELSE Named(assembled.tile.info.encoding))
        => PassedThrough

\* a gzip tile, a header that lists brotli before gzip: shipped as stored
C7_Witness ==
    /\ Recompressed
    /\ encodings.present
    /\ encodings.prefs = <<[item |-> "br", q |-> 1000], [item |-> "gzip", q |-> 1000]>>
    /\ assembled.tile.data = <<"gz[", "a", "]">>
    /\ assembled.tile.info.encoding = "gzip"
    /\ content.tile = assembled.tile
    /\ response.content_encoding = "gzip"
    /\ response.body = <<"gz[", "a", "]">>

\* the body is a stream of the encoding the Content-Encoding token names
BodyIsIn(token, body) ==
    CASE token = "gzip" -> decode_gzip(body).ok
      [] token = "br" -> decode_brotli(body).ok
      [] token = "none" -> \A k \in 1..Len(body) : IsContentByte(body[k])
      [] OTHER -> FALSE

Excluded(encoding) ==
    \E k \in 1..Len(encodings.prefs) :
        /\ encodings.prefs[k].item = Token(encoding)
        /\ encodings.prefs[k].q = 0

\* C11: with the header present, a successful recompress result is never in
\* a compressed encoding (gzip, brotli) that the header lists with q=0,
\* whatever the stored encoding and the preference list.
C11_ExcludedEncodingNotShipped ==
    (Recompressed /\ encodings.present /\ content.ok
        /\ content.tile.info.encoding \in {"gzip", "brotli"})
        => ~Excluded(content.tile.info.encoding)

---------------------------------------------------------------------------
(* Properties of the TileJSON merger                                       *)

\* merge_tilejson ran on two or more sources
Merged == tj_pc = "done" /\ Len(tj_sources) >= 2

DeclaredMinzooms == {tj_sources[i].minzoom.v :
                        i \in {j \in DOMAIN tj_sources : tj_sources[j].minzoom.some}}
DeclaredMaxzooms == {tj_sources[i].maxzoom.v :
                        i \in {j \in DOMAIN tj_sources : tj_sources[j].maxzoom.some}}

\* C9: for two or more sources the merged minzoom is the least declared
\* minzoom and the merged maxzoom the greatest declared maxzoom; a field is
\* absent exactly when no source declares it.
C9_ZoomRange ==
    Merged
        => /\ tj_result.minzoom.some <=> DeclaredMinzooms # {}
           /\ tj_result.maxzoom.some <=> DeclaredMaxzooms # {}
           /\ tj_result.minzoom.some
                => /\ tj_result.minzoom.v \in DeclaredMinzooms
                   /\ \A z \in DeclaredMinzooms : tj_result.minzoom.v <= z
           /\ tj_result.maxzoom.some
                => /\ tj_result.maxzoom.v \in DeclaredMaxzooms
                   /\ \A z \in DeclaredMaxzooms : tj_result.maxzoom.v >= z

\* minzoom 7 then 5, maxzoom 12 then 10, a source that declares neither
C9_Witness ==
    /\ tj_pc = "done"
    /\ Len(tj_sources) = 3
    /\ tj_sources[1].minzoom = Some(7) /\ tj_sources[1].maxzoom = Some(12)
    /\ tj_sources[2].minzoom = None /\ tj_sources[2].maxzoom = None
    /\ tj_sources[3].minzoom = Some(5) /\ tj_sources[3].maxzoom = Some(10)
    /\ tj_result.minzoom = Some(5)
    /\ tj_result.maxzoom = Some(12)

\* the positions of tj_sources that declare a name no earlier source declares
FirstSeen ==
    {i \in DOMAIN tj_sources :
        /\ tj_sources[i].name.some
        /\ \A j \in 1..(i - 1) : tj_sources[j].name # tj_sources[i].name}

RECURSIVE CommaJoined(_)
\* the names at a set of positions, by position, with commas between them
CommaJoined(positions) ==
    IF positions = {} THEN ""
    ELSE LET last == CHOOSE i \in positions : \A j \in positions : j <= i
         IN  IF positions = {last} THEN tj_sources[last].name.v
             ELSE CommaJoined(positions \ {last}) \o "," \o tj_sources[last].name.v

\* C10: for two or more sources the merged name is the distinct declared
\* names in first-seen order, comma-joined; it is absent when no source
\* declares a name.
C10_NameJoin ==
    Merged
        => /\ tj_result.name.some <=> FirstSeen # {}
           /\ tj_result.name.some => tj_result.name.v = CommaJoined(FirstSeen)

\* layer2, layer1, layer2 merge to "layer2,layer1"
C10_Witness ==
    /\ tj_pc = "done"
    /\ Len(tj_sources) = 3
    /\ tj_sources[1].name = Some("layer2")
    /\ tj_sources[2].name = Some("layer1")
    /\ tj_sources[3].name = Some("layer2")
    /\ tj_result.name = Some("layer2,layer1")

=============================================================================
